---- MODULE Spec2Model ----
(***************************************************************************)
(* Model of src/server.py: SecureHTTPRequestHandler, a static file server  *)
(* that validates the request path (is_safe_path), refuses POST/PUT/DELETE *)
(* and decorates responses with security headers (end_headers).            *)
(*                                                                         *)
(* A Python str is modelled as a sequence of one-character strings, so     *)
(* that splitting, percent-decoding, searching and lower-casing are        *)
(* computed character by character as the code computes them.              *)
(***************************************************************************)
EXTENDS Integers, Sequences, FiniteSets, TLC

VARIABLES
    ALLOWED_EXTENSIONS, \* module global, server.py:16
    pc,                 \* "idle" | "validated" (inside do_GET) | "done"
    command,            \* self.command
    path,               \* self.path, the raw request target
    request_version,    \* self.request_version
    validator_calls,    \* number of is_safe_path calls made for this request
    verdict,            \* "none" | "allow" | "deny"
    reason,             \* diagnostic printed by is_safe_path, "none" if none
    responder_calls,    \* number of times the inherited file responder ran
    status,             \* response status code, 0 before a response exists
    headers,            \* header lines written to the client
    body,               \* "none" | "error" | "file" | "listing"
    delivered,          \* file (relative to the server root) sent as body
    handled             \* requests answered since the server started

vars == <<ALLOWED_EXTENSIONS, pc, command, path, request_version,
          validator_calls, verdict, reason, responder_calls, status,
          headers, body, delivered, handled>>

----------------------------------------------------------------------------
(* Bounds of the model                                                     *)

\* A request target is a concatenation of at most MaxTokens tokens.
MaxTokens == 4

\* The server is followed for MaxRequests requests.
MaxRequests == 2

\* The pieces request targets are built from.  They spell the separators,
\* a dot, the query and fragment delimiters, a percent-encoded dot, a plain
\* name, and allowed (lower and upper case) and disallowed extensions.
Tokens ==
    { <<"/">>, <<"a">>, <<".">>, <<"?">>, <<"#">>,
      <<"%", "2", "e">>,
      <<".", "j", "s">>, <<".", "J", "S">>, <<".", "e", "x", "e">> }

RECURSIVE TargetsUpTo(_)
TargetsUpTo(n) ==
    IF n = 0 THEN { <<>> }
    ELSE LET shorter == TargetsUpTo(n - 1)
         IN  shorter \cup { t \o k : t \in shorter, k \in Tokens }

\* The request line always holds a target, so the empty string is left out.
Targets == TargetsUpTo(MaxTokens) \ { <<>> }

----------------------------------------------------------------------------
(* Python str primitives                                                   *)

\* s[i:] for a 1-based index i
From(s, i) == SubSeq(s, i, Len(s))

\* s.startswith(p)
StartsWith(s, p) == Len(s) >= Len(p) /\ SubSeq(s, 1, Len(p)) = p

\* p in s
Contains(s, p) ==
    \E i \in 1..(Len(s) - Len(p) + 1) : SubSeq(s, i, i + Len(p) - 1) = p

\* s.find(c) and s.rfind(c), 1-based, 0 when absent
Find(s, c) ==
    IF \E i \in 1..Len(s) : s[i] = c
    THEN CHOOSE i \in 1..Len(s) : s[i] = c /\ \A j \in 1..(i - 1) : s[j] # c
    ELSE 0

RFind(s, c) ==
    IF \E i \in 1..Len(s) : s[i] = c
    THEN CHOOSE i \in 1..Len(s) : s[i] = c /\ \A j \in (i + 1)..Len(s) : s[j] # c
    ELSE 0

\* s.split(c)[0], which is also s.split(c, 1)[0]
SplitFirst(s, c) == IF Find(s, c) = 0 THEN s ELSE SubSeq(s, 1, Find(s, c) - 1)

\* str.lower() on ASCII letters
UpperCase == <<"A", "B", "C", "D", "E", "F", "G", "H", "I", "J", "K", "L", "M",
               "N", "O", "P", "Q", "R", "S", "T", "U", "V", "W", "X", "Y", "Z">>
LowerCase == <<"a", "b", "c", "d", "e", "f", "g", "h", "i", "j", "k", "l", "m",
               "n", "o", "p", "q", "r", "s", "t", "u", "v", "w", "x", "y", "z">>

LowerChar(c) ==
    IF \E i \in 1..26 : UpperCase[i] = c
    THEN LowerCase[CHOOSE i \in 1..26 : UpperCase[i] = c]
    ELSE c

lower(s) == [i \in 1..Len(s) |-> LowerChar(s[i])]

----------------------------------------------------------------------------
(* urllib.parse.unquote                                                    *)

HexChars == <<"0", "1", "2", "3", "4", "5", "6", "7", "8", "9",
              "a", "b", "c", "d", "e", "f", "A", "B", "C", "D", "E", "F">>

IsHex(c) == \E i \in 1..22 : HexChars[i] = c

HexVal(c) ==
    LET i == CHOOSE k \in 1..22 : HexChars[k] = c
    IN  IF i <= 16 THEN i - 1 ELSE i - 7

\* The printable ASCII characters, code points 32..126, in order (the grave
\* accent, code point 96, is spelled by name).
Printable ==
    <<" ", "!", "\"", "#", "$", "%", "&", "'", "(", ")", "*", "+", ",", "-",
      ".", "/", "0", "1", "2", "3", "4", "5", "6", "7", "8", "9", ":", ";",
      "<", "=", ">", "?", "@", "A", "B", "C", "D", "E", "F", "G", "H", "I",
      "J", "K", "L", "M", "N", "O", "P", "Q", "R", "S", "T", "U", "V", "W",
      "X", "Y", "Z", "[", "\\", "]", "^", "_", "GRAVE", "a", "b", "c", "d", "e",
      "f", "g", "h", "i", "j", "k", "l", "m", "n", "o", "p", "q", "r", "s",
      "t", "u", "v", "w", "x", "y", "z", "{", "|", "}", "~">>

\* The character a decoded byte stands for.  A byte outside printable ASCII
\* is kept as one opaque symbol: a control character, or U+FFFD for a byte
\* that is not valid UTF-8 on its own (errors='replace').
Chr(n) ==
    IF n >= 32 /\ n <= 126 THEN Printable[n - 31]
    ELSE IF n < 128 THEN "CTRL"
    ELSE "U+FFFD"

\* '%' followed by two hex digits becomes the byte they spell; any other
\* '%' stays as it is.  unquote does not raise, so the except branch of
\* is_safe_path (server.py:49-50) is never taken.
\* Variant: percent-escapes are left undecoded.
unquote_mut(s) == s

RECURSIVE unquote(_)
unquote(s) ==
    IF s = <<>> THEN <<>>
    ELSE IF s[1] = "%" /\ Len(s) >= 3 /\ IsHex(s[2]) /\ IsHex(s[3])
         THEN <<Chr(16 * HexVal(s[2]) + HexVal(s[3]))>> \o unquote(From(s, 4))
         ELSE <<s[1]>> \o unquote(Tail(s))

----------------------------------------------------------------------------
(* os.path                                                                 *)

\* os.path.basename(p): everything after the last '/'
basename(p) == From(p, RFind(p, "/") + 1)

\* Variant: the extension is taken from the first '.' of the last component.
splitext_ext_mut(p) ==
    LET b == basename(p)
    IN  IF Find(b, ".") = 0 THEN <<>> ELSE From(b, Find(b, "."))

\* os.path.splitext(p)[1]: from the last '.' of the last component, unless
\* that component consists of leading dots up to there
splitext_ext(p) ==
    LET sepIndex == RFind(p, "/")
        dotIndex == RFind(p, ".")
    IN  IF dotIndex > sepIndex
           /\ \E k \in (sepIndex + 1)..(dotIndex - 1) : p[k] # "."
        THEN From(p, dotIndex)
        ELSE <<>>

----------------------------------------------------------------------------
(* Configuration                                                           *)

AllowedExtensionsInit ==
    { <<".", "h", "t", "m", "l">>, <<".", "c", "s", "s">>, <<".", "j", "s">>,
      <<".", "j", "s", "o", "n">>, <<".", "p", "n", "g">>, <<".", "j", "p", "g">>,
      <<".", "j", "p", "e", "g">>, <<".", "g", "i", "f">>, <<".", "s", "v", "g">>,
      <<".", "i", "c", "o">>, <<".", "w", "o", "f", "f">>,
      <<".", "w", "o", "f", "f", "2">>, <<".", "t", "t", "f">>,
      <<".", "w", "e", "b", "p">> }

----------------------------------------------------------------------------
(* SecureHTTPRequestHandler.is_safe_path                                   *)

Allow == [verdict |-> "allow", reason |-> "none"]
Deny(r) == [verdict |-> "deny", reason |-> r]

\* path.split('?')[0] followed by unquote
decoded_path(p) == unquote(SplitFirst(p, "?"))

traversal_check(p) == Contains(p, <<".", ".">>) \/ Contains(p, <<"/", "/">>)

hidden_check(p) == Contains(p, <<"/", ".">>) \/ StartsWith(p, <<".">>)

extension_check(p, allowed) ==
    "." \in { basename(p)[i] : i \in 1..Len(basename(p)) }
        /\ lower(splitext_ext(p)) \notin allowed

\* Variant: the extension check runs before the hidden-file check.
is_safe_path_mut(p, allowed) ==
    LET d == decoded_path(p)
    IN  IF traversal_check(d) THEN Deny("path traversal attempt")
        ELSE IF extension_check(d, allowed) THEN Deny("disallowed file type")
        ELSE IF hidden_check(d) THEN Deny("hidden file access")
        ELSE Allow

\* The normalized value of server.py:63-67 is computed and never read, so
\* it has no counterpart here.
is_safe_path(p, allowed) ==
    LET d == decoded_path(p)
    IN  IF traversal_check(d) THEN Deny("path traversal attempt")
        ELSE IF hidden_check(d) THEN Deny("hidden file access")
        ELSE IF extension_check(d, allowed) THEN Deny("disallowed file type")
        ELSE Allow

----------------------------------------------------------------------------
(* Response headers: BaseHTTPRequestHandler.send_header and the            *)
(* end_headers override                                                    *)

Versions == {"HTTP/0.9", "HTTP/1.1"}

\* http.server buffers a header only when the request is not HTTP/0.9.
send_header(buf, keyword, value, version) ==
    IF version # "HTTP/0.9" THEN buf \cup { <<keyword, value>> } ELSE buf

CSP == "default-src 'self'; script-src 'self' 'unsafe-inline'; style-src 'self' 'unsafe-inline' https://fonts.googleapis.com; font-src 'self' https://fonts.gstatic.com; img-src 'self' data:; connect-src 'self'; frame-ancestors 'self';"

SecurityHeaders ==
    { <<"X-Content-Type-Options", "nosniff">>,
      <<"X-Frame-Options", "SAMEORIGIN">>,
      <<"X-XSS-Protection", "1; mode=block">>,
      <<"Referrer-Policy", "strict-origin-when-cross-origin">>,
      <<"Permissions-Policy", "geolocation=(), microphone=(), camera=()">>,
      <<"Content-Security-Policy", CSP>>,
      <<"Cache-Control", "no-store, no-cache, must-revalidate">>,
      <<"Expires", "0">> }

\* Variant: the Content-Security-Policy header is not sent.
end_headers_mut(buf, version) ==
    LET h1 == send_header(buf, "X-Content-Type-Options", "nosniff", version)
        h2 == send_header(h1, "X-Frame-Options", "SAMEORIGIN", version)
        h3 == send_header(h2, "X-XSS-Protection", "1; mode=block", version)
        h4 == send_header(h3, "Referrer-Policy",
                          "strict-origin-when-cross-origin", version)
        h5 == send_header(h4, "Permissions-Policy",
                          "geolocation=(), microphone=(), camera=()", version)
        h7 == send_header(h5, "Cache-Control",
                          "no-store, no-cache, must-revalidate", version)
        h8 == send_header(h7, "Expires", "0", version)
    IN  h8

\* SecureHTTPRequestHandler.end_headers: eight send_header calls, then the
\* inherited end_headers, which flushes the buffer to the client.
end_headers(buf, version) ==
    LET h1 == send_header(buf, "X-Content-Type-Options", "nosniff", version)
        h2 == send_header(h1, "X-Frame-Options", "SAMEORIGIN", version)
        h3 == send_header(h2, "X-XSS-Protection", "1; mode=block", version)
        h4 == send_header(h3, "Referrer-Policy",
                          "strict-origin-when-cross-origin", version)
        h5 == send_header(h4, "Permissions-Policy",
                          "geolocation=(), microphone=(), camera=()", version)
        h6 == send_header(h5, "Content-Security-Policy", CSP, version)
        h7 == send_header(h6, "Cache-Control",
                          "no-store, no-cache, must-revalidate", version)
        h8 == send_header(h7, "Expires", "0", version)
    IN  h8

\* send_response: the Server and Date headers (values are not modelled)
send_response(version) ==
    send_header(send_header({}, "Server", "version_string", version),
                "Date", "date_time_string", version)

\* send_error(code, message), called at server.py:26,32,35,38 and by the
\* inherited handler: status, Connection: close, an HTML body, end_headers.
send_error(code, version) ==
    LET h1 == send_header(send_response(version), "Connection", "close", version)
        h2 == send_header(h1, "Content-Type", "text/html;charset=utf-8", version)
        h3 == send_header(h2, "Content-Length", "len(body)", version)
    IN  [status |-> code, headers |-> end_headers(h3, version),
         body |-> "error", delivered |-> <<>>]

----------------------------------------------------------------------------
(* The inherited file responder: SimpleHTTPRequestHandler.send_head        *)

\* s.split('/')
RECURSIVE Split(_)
Split(s) ==
    IF Find(s, "/") = 0 THEN <<s>>
    ELSE <<SubSeq(s, 1, Find(s, "/") - 1)>> \o Split(From(s, Find(s, "/") + 1))

\* The component loop of posixpath.normpath; rooted is true when the path
\* starts with a slash.
RECURSIVE normpath_comps(_, _, _)
normpath_comps(comps, acc, rooted) ==
    IF comps = <<>> THEN acc
    ELSE LET comp == Head(comps)
             rest == Tail(comps)
         IN  IF comp = <<>> \/ comp = <<".">>
             THEN normpath_comps(rest, acc, rooted)
             ELSE IF comp # <<".", ".">>
                     \/ (~rooted /\ acc = <<>>)
                     \/ (acc # <<>> /\ acc[Len(acc)] = <<".", ".">>)
             THEN normpath_comps(rest, Append(acc, comp), rooted)
             ELSE IF acc # <<>>
             THEN normpath_comps(rest, SubSeq(acc, 1, Len(acc) - 1), rooted)
             ELSE normpath_comps(rest, acc, rooted)

\* '/'.join(words)
RECURSIVE Join(_)
Join(words) ==
    IF words = <<>> THEN <<>>
    ELSE IF Len(words) = 1 THEN words[1]
    ELSE words[1] \o <<"/">> \o Join(Tail(words))

\* path.split('?',1)[0].split('#',1)[0]
strip_query_fragment(p) == SplitFirst(SplitFirst(p, "?"), "#")

\* SimpleHTTPRequestHandler.translate_path, relative to the served
\* directory: drop query and fragment, unquote, normpath, drop the '.' and
\* '..' words, keep an explicit trailing slash.  (A request target holds no
\* white space, so rstrip() leaves it as it is.)
translate_path(p) ==
    LET raw == strip_query_fragment(p)
        trailing_slash == raw # <<>> /\ raw[Len(raw)] = "/"
        dec == unquote(raw)
        comps == normpath_comps(Split(dec), <<>>, StartsWith(dec, <<"/">>))
        words == SelectSeq(comps, LAMBDA w : w # <<".", ".">>)
    IN  Join(words) \o (IF trailing_slash THEN <<"/">> ELSE <<>>)

\* urllib.parse.urlsplit(p).path: a leading '//' introduces a network
\* location that ends at the next '/', '?' or '#'; the path ends at the
\* first '?' or '#'.
urlsplit_path(p) ==
    LET afterNetloc ==
            IF StartsWith(p, <<"/", "/">>)
            THEN LET r == From(p, 3)
                     delims == { i \in 1..Len(r) : r[i] \in {"/", "?", "#"} }
                 IN  IF delims = {} THEN <<>>
                     ELSE From(r, CHOOSE i \in delims : \A j \in delims : i <= j)
            ELSE p
    IN  SplitFirst(SplitFirst(afterNetloc, "#"), "?")

EndsWithSlash(s) == s # <<>> /\ s[Len(s)] = "/"

\* What the translated path names on disk.  The served directory itself
\* (no words left) is always a directory.
FsKinds(p) ==
    IF translate_path(p) \in { <<>>, <<"/">> }
    THEN {"dir_index_html", "dir_index_htm", "dir_listing"}
    ELSE {"file", "absent", "dir_index_html", "dir_index_htm", "dir_listing"}

IndexHtml == <<"i", "n", "d", "e", "x", ".", "h", "t", "m", "l">>
IndexHtm == <<"i", "n", "d", "e", "x", ".", "h", "t", "m">>

\* os.path.join(path, index)
join_index(dir, index) ==
    IF dir = <<>> \/ EndsWithSlash(dir) THEN dir \o index
    ELSE dir \o <<"/">> \o index

\* The 200 response of send_head for an opened file
file_response(file, version) ==
    LET h1 == send_header(send_response(version), "Content-type",
                          "guess_type(path)", version)
        h2 == send_header(h1, "Content-Length", "st_size", version)
        h3 == send_header(h2, "Last-Modified", "st_mtime", version)
    IN  [status |-> 200, headers |-> end_headers(h3, version),
         body |-> "file", delivered |-> file]

\* send_head on target p when the translated path is of the given kind
\* (conditional requests, If-Modified-Since, are not modelled).
send_head(p, kind, version) ==
    LET fspath == translate_path(p)
    IN  IF kind \in {"dir_index_html", "dir_index_htm", "dir_listing"}
        THEN IF ~EndsWithSlash(urlsplit_path(p))
             THEN LET h1 == send_header(send_response(version), "Location",
                                        "new_url", version)
                      h2 == send_header(h1, "Content-Length", "0", version)
                  IN  [status |-> 301, headers |-> end_headers(h2, version),
                       body |-> "none", delivered |-> <<>>]
             ELSE IF kind = "dir_index_html"
             THEN file_response(join_index(fspath, IndexHtml), version)
             ELSE IF kind = "dir_index_htm"
             THEN file_response(join_index(fspath, IndexHtm), version)
             ELSE LET h1 == send_header(send_response(version), "Content-type",
                                        "text/html; charset=utf-8", version)
                      h2 == send_header(h1, "Content-Length", "len(encoded)",
                                        version)
                  IN  [status |-> 200, headers |-> end_headers(h2, version),
                       body |-> "listing", delivered |-> <<>>]
        ELSE IF EndsWithSlash(fspath) \/ kind = "absent"
        THEN send_error(404, version)
        ELSE file_response(fspath, version)

----------------------------------------------------------------------------
(* The server: one request at a time (socketserver.TCPServer)              *)

NoRequest ==
    /\ command = "none"
    /\ path = <<>>
    /\ request_version = "none"
    /\ validator_calls = 0
    /\ verdict = "none"
    /\ reason = "none"
    /\ responder_calls = 0
    /\ status = 0
    /\ headers = {}
    /\ body = "none"
    /\ delivered = <<>>

Init ==
    /\ ALLOWED_EXTENSIONS = AllowedExtensionsInit
    /\ pc = "idle"
    /\ handled = 0
    /\ NoRequest

\* The response written by the handler
Respond(r) ==
    /\ status' = r.status
    /\ headers' = r.headers
    /\ body' = r.body
    /\ delivered' = r.delivered

\* do_GET, server.py:25: the call of is_safe_path on self.path
do_GET_validate(target, version) ==
    /\ pc = "idle"
    /\ command' = "GET"
    /\ path' = target
    /\ request_version' = version
    /\ validator_calls' = validator_calls + 1
    /\ verdict' = is_safe_path(target, ALLOWED_EXTENSIONS).verdict
    /\ reason' = is_safe_path(target, ALLOWED_EXTENSIONS).reason
    /\ pc' = "validated"
    /\ UNCHANGED <<ALLOWED_EXTENSIONS, handled, responder_calls, status, headers, body,
                   delivered>>

\* Variant: a denied path is handed to the file responder all the same.
do_GET_forbidden_mut ==
    /\ pc = "validated"
    /\ verdict = "deny"
    /\ \E kind \in FsKinds(path) : Respond(send_head(path, kind, request_version))
    /\ responder_calls' = responder_calls + 1
    /\ pc' = "done"
    /\ UNCHANGED <<ALLOWED_EXTENSIONS, handled, command, path, request_version,
                   validator_calls, verdict, reason>>

\* do_GET, server.py:25-27: the path is not safe
do_GET_forbidden ==
    /\ pc = "validated"
    /\ verdict = "deny"
    /\ Respond(send_error(403, request_version))
    /\ pc' = "done"
    /\ UNCHANGED <<ALLOWED_EXTENSIONS, handled, command, path, request_version,
                   validator_calls, verdict, reason, responder_calls>>

\* do_GET, server.py:28: super().do_GET() sends the head and copies the
\* file (or the listing) to the client
do_GET_super ==
    /\ pc = "validated"
    /\ verdict = "allow"
    /\ \E kind \in FsKinds(path) : Respond(send_head(path, kind, request_version))
    /\ responder_calls' = responder_calls + 1
    /\ pc' = "done"
    /\ UNCHANGED <<ALLOWED_EXTENSIONS, handled, command, path, request_version,
                   validator_calls, verdict, reason>>

\* The handlers that refuse the method, server.py:30-38
refuse_method(method, target) ==
    /\ pc = "idle"
    /\ command' = method
    /\ path' = target
    /\ request_version' = "HTTP/1.1"
    /\ Respond(send_error(405, "HTTP/1.1"))
    /\ pc' = "done"
    /\ UNCHANGED <<ALLOWED_EXTENSIONS, handled, validator_calls, verdict, reason,
                   responder_calls>>

\* Variant: POST registers a new allowed extension.
do_POST_mut(target) ==
    /\ pc = "idle"
    /\ command' = "POST"
    /\ path' = target
    /\ request_version' = "HTTP/1.1"
    /\ Respond(send_error(405, "HTTP/1.1"))
    /\ pc' = "done"
    /\ ALLOWED_EXTENSIONS' = ALLOWED_EXTENSIONS \cup { <<".", "e", "x", "e">> }
    /\ UNCHANGED <<handled, validator_calls, verdict, reason, responder_calls>>

do_POST(target) == refuse_method("POST", target)

\* Variant: PUT validates the path first and answers 403 for an unsafe one.
do_PUT_mut(target) ==
    /\ pc = "idle"
    /\ command' = "PUT"
    /\ path' = target
    /\ request_version' = "HTTP/1.1"
    /\ validator_calls' = validator_calls + 1
    /\ verdict' = is_safe_path(target, ALLOWED_EXTENSIONS).verdict
    /\ reason' = is_safe_path(target, ALLOWED_EXTENSIONS).reason
    /\ Respond(send_error(IF is_safe_path(target, ALLOWED_EXTENSIONS).verdict = "deny"
                          THEN 403 ELSE 405, "HTTP/1.1"))
    /\ pc' = "done"
    /\ UNCHANGED <<ALLOWED_EXTENSIONS, handled, responder_calls>>

do_PUT(target) == refuse_method("PUT", target)

do_DELETE(target) == refuse_method("DELETE", target)

\* do_HEAD is not overridden: SimpleHTTPRequestHandler.do_HEAD runs
\* send_head on self.path and sends no body.
do_HEAD(target) ==
    /\ pc = "idle"
    /\ command' = "HEAD"
    /\ path' = target
    /\ request_version' = "HTTP/1.1"
    /\ \E kind \in FsKinds(target) :
          LET r == send_head(target, kind, "HTTP/1.1")
          IN  Respond([r EXCEPT !.body = "none", !.delivered = <<>>])
    /\ responder_calls' = responder_calls + 1
    /\ pc' = "done"
    /\ UNCHANGED <<ALLOWED_EXTENSIONS, handled, validator_calls, verdict, reason>>

\* A method with no do_<method> attribute: handle_one_request answers 501.
OtherMethods == {"OPTIONS", "PATCH"}

unsupported_method(method, target) ==
    /\ pc = "idle"
    /\ method \in OtherMethods
    /\ command' = method
    /\ path' = target
    /\ request_version' = "HTTP/1.1"
    /\ Respond(send_error(501, "HTTP/1.1"))
    /\ pc' = "done"
    /\ UNCHANGED <<ALLOWED_EXTENSIONS, handled, validator_calls, verdict, reason,
                   responder_calls>>

\* The handler object is discarded; the next request gets a new one.
finish ==
    /\ pc = "done"
    /\ pc' = "idle"
    /\ command' = "none"
    /\ path' = <<>>
    /\ request_version' = "none"
    /\ validator_calls' = 0
    /\ verdict' = "none"
    /\ reason' = "none"
    /\ responder_calls' = 0
    /\ status' = 0
    /\ headers' = {}
    /\ body' = "none"
    /\ delivered' = <<>>
    /\ handled' = handled + 1
    /\ UNCHANGED ALLOWED_EXTENSIONS

\* A request is read only when none is being handled (serve_forever takes
\* one connection at a time); the test is made before a target is chosen.
Idle == pc = "idle" /\ handled < MaxRequests

Next ==
    \/ Idle /\ \E t \in Targets : do_POST(t)
    \/ Idle /\ \E t \in Targets : do_PUT(t)
    \/ Idle /\ \E t \in Targets : do_DELETE(t)
    \/ Idle /\ \E m \in OtherMethods, t \in Targets : unsupported_method(m, t)
    \/ Idle /\ \E t \in Targets : do_HEAD(t)
    \/ Idle /\ \E t \in Targets, v \in Versions : do_GET_validate(t, v)
    \/ do_GET_forbidden
    \/ do_GET_super
    \/ finish

Spec == Init /\ [][Next]_vars

----------------------------------------------------------------------------
(* Properties                                                              *)

DotDot == <<".", ".">>
SlashSlash == <<"/", "/">>
SlashDot == <<"/", ".">>
EncodedDot == <<"%", "2", "e">>

HasDot(s) == \E i \in 1..Len(s) : s[i] = "."

\* The extension of a file name: from its last '.', lower-cased
LastDotSuffix(b) == [i \in 1..(Len(b) - RFind(b, ".") + 1) |->
                        LowerChar(b[RFind(b, ".") + i - 1])]

HeaderNames(h) == { x[1] : x \in h }

\* C1: the file responder runs for a request only after is_safe_path has
\* returned allow for that request's path, whatever the HTTP method.
C1_ResponderOnlyAfterAllow ==
    responder_calls > 0 => (validator_calls > 0 /\ verdict = "allow")

\* C2: a GET whose path is_safe_path denies is answered 403 without the file
\* responder; a GET whose path it allows is delegated to the file responder
\* exactly once.
C2_GetDeniedOrDelegatedOnce ==
    /\ (pc = "validated" => responder_calls = 0 /\ status = 0)
    /\ (pc = "done" /\ command = "GET") =>
          /\ validator_calls = 1
          /\ verdict = "deny" => (status = 403 /\ responder_calls = 0
                                  /\ body = "error" /\ delivered = <<>>)
          /\ verdict = "allow" => (responder_calls = 1 /\ status # 403)

C2_Witness ==
    /\ pc = "done" /\ command = "GET"
    /\ path = <<"/", ".", ".", "/">>
    /\ status = 403

\* C3: every request whose method is not GET is answered 405.
C3_NonGetIs405 ==
    (pc = "done" /\ command # "GET") => status = 405

\* C4: POST, PUT and DELETE are answered 405 for every path, without a call
\* of is_safe_path, a diagnostic or the file responder.
C4_MutatingMethodsRefused ==
    (pc = "done" /\ command \in {"POST", "PUT", "DELETE"}) =>
        /\ status = 405
        /\ validator_calls = 0 /\ verdict = "none" /\ reason = "none"
        /\ responder_calls = 0 /\ delivered = <<>>

C4_Witness ==
    /\ pc = "done" /\ command = "PUT"
    /\ path = <<"/", ".", "e", "x", "e">>
    /\ status = 405

C6_AnyDotDotDenied ==
    (validator_calls > 0
        /\ (Contains(path, DotDot) \/ Contains(path, SlashSlash)
            \/ Contains(path, EncodedDot \o EncodedDot))) =>
        (verdict = "deny" /\ reason = "path traversal attempt")

\* C6 amended: a path whose part before the first '?' contains '..' or
\* '//', the dots written literally or as %2e, is denied as path traversal.
C6_TraversalBeforeQueryDenied ==
    LET q == SplitFirst(path, "?")
    IN  (validator_calls > 0
            /\ (Contains(q, DotDot) \/ Contains(q, SlashSlash)
                \/ Contains(q, EncodedDot \o EncodedDot)
                \/ Contains(q, <<".">> \o EncodedDot)
                \/ Contains(q, EncodedDot \o <<".">>))) =>
            (verdict = "deny" /\ reason = "path traversal attempt")

C6_Witness ==
    /\ validator_calls > 0
    /\ path = <<"/">> \o EncodedDot \o EncodedDot \o <<"/">>
    /\ verdict = "deny" /\ reason = "path traversal attempt"

\* C7 as stated: a path with a segment that begins with '.', or that begins
\* with '.' itself, is denied and the reason is the hidden-file one.
C7_HiddenAlwaysHiddenReason ==
    (validator_calls > 0
        /\ (Contains(path, SlashDot) \/ StartsWith(path, <<".">>))) =>
        (verdict = "deny" /\ reason = "hidden file access")

\* C7 amended: a path whose query-stripped, decoded form has a segment that
\* begins with '.' is denied, for the hidden-file reason when that form has
\* no '..' and no '//' and for the traversal reason otherwise; the one
\* reason reported is that of the first failing check in the order
\* traversal, hidden file, extension.
C7_FirstFailingCheckReported ==
    LET d == decoded_path(path)
        trav == Contains(d, DotDot) \/ Contains(d, SlashSlash)
        hid == Contains(d, SlashDot) \/ StartsWith(d, <<".">>)
    IN  validator_calls > 0 =>
            /\ trav => (verdict = "deny" /\ reason = "path traversal attempt")
            /\ (hid /\ ~trav) => (verdict = "deny" /\ reason = "hidden file access")
            /\ reason = "disallowed file type" => (~trav /\ ~hid /\ verdict = "deny")
            /\ verdict = "allow" <=> reason = "none"

C7_Witness ==
    /\ validator_calls > 0
    /\ path = <<"/", ".", "a", ".", "j", "s">>
    /\ verdict = "deny" /\ reason = "hidden file access"

\* C8: a path that passes the traversal and hidden-file checks is allowed
\* exactly when its basename has no '.' or the lower-cased suffix of the
\* basename from its last '.' is an allowed extension; otherwise it is
\* denied as a disallowed file type.
C8_ExtensionWhitelist ==
    LET b == basename(decoded_path(path))
    IN  (validator_calls > 0
            /\ reason \notin {"path traversal attempt", "hidden file access"}) =>
            /\ verdict = "allow" <=>
                  (~HasDot(b) \/ LastDotSuffix(b) \in AllowedExtensionsInit)
            /\ verdict = "deny" => reason = "disallowed file type"

C8_Witness ==
    /\ validator_calls > 0
    /\ path = <<"a", ".", "e", "x", "e", ".", "J", "S">>
    /\ verdict = "allow"

\* C9: whenever a file is delivered, the path the file responder resolves
\* from the request target has a basename without '.' or with an allowed
\* extension.
C9_OnlyWhitelistedDelivered ==
    (pc = "done" /\ body = "file") =>
        LET b == basename(translate_path(path))
        IN  ~HasDot(b) \/ LastDotSuffix(b) \in AllowedExtensionsInit

\* C10: no request changes the allowed-extension set, and the verdict and
\* reason of every is_safe_path call, after any earlier requests, are those
\* of a fresh server for the same path.
C10_VerdictDependsOnPathOnly ==
    /\ ALLOWED_EXTENSIONS = AllowedExtensionsInit
    /\ validator_calls > 0 =>
          /\ verdict = is_safe_path(path, AllowedExtensionsInit).verdict
          /\ reason = is_safe_path(path, AllowedExtensionsInit).reason

C10_Witness ==
    /\ handled > 0
    /\ validator_calls > 0
    /\ path = <<"/", "a", ".", "e", "x", "e">>
    /\ verdict = "deny"

====
